---- MODULE Spec2Model ----
(***************************************************************************)
(* Model of graph_memory_lint.py, the linter of a graph memory bank.       *)
(* Texts, link targets, finding codes and path components are strings;     *)
(* a path is the sequence of its components below the filesystem root.     *)
(* Python offsets are kept 0-based: Slice(s, a, b) is s[a:b].               *)
(***************************************************************************)
EXTENDS Naturals, Integers, Sequences, FiniteSets, TLC

FM_DELIM == "---"
\* The grave accent cannot be written in a TLA+ string; "~" stands for it.
BACKTICK == "~"

FENCE == BACKTICK \o BACKTICK \o BACKTICK

NL == "\n"
QUOTE == "\""
BACKSLASH == "\\"

(* ---------------------------------------------------------------------- *)
(* str primitives                                                          *)
(* ---------------------------------------------------------------------- *)

\* s[i], 0-based; "" when i is out of range
At(s, i) == IF 0 <= i /\ i < Len(s) THEN SubSeq(s, i + 1, i + 1) ELSE ""

\* s[a:b] for 0 <= a; like Python's, a slice stops at the end of s
Slice(s, a, b) ==
    LET hi == IF b > Len(s) THEN Len(s) ELSE b
    IN IF a >= hi THEN "" ELSE SubSeq(s, a + 1, hi)

\* s[a:]
From(s, a) == Slice(s, a, Len(s))

SetMin(S) == CHOOSE x \in S : \A y \in S : x <= y

SetMax(S) == CHOOSE x \in S : \A y \in S : x >= y

\* s.startswith(p)
StartsWith(s, p) == Len(p) <= Len(s) /\ SubSeq(s, 1, Len(p)) = p

\* s.endswith(p)
EndsWith(s, p) == Len(p) <= Len(s) /\ SubSeq(s, Len(s) - Len(p) + 1, Len(s)) = p

RECURSIVE Find(_, _, _)
\* s.find(sub, start): the lowest offset >= start where sub occurs, else -1
Find(s, sub, start) ==
    IF start + Len(sub) > Len(s) THEN -1
    ELSE IF SubSeq(s, start + 1, start + Len(sub)) = sub THEN start
    ELSE Find(s, sub, start + 1)

\* sub in s
Contains(s, sub) == Find(s, sub, 0) # -1

\* the characters str.strip() and the regex class \s remove
WhiteSpace == {" ", "\t", NL, "\r", "\f"}

\* s.strip()
Strip(s) ==
    LET keep == {i \in 0..(Len(s) - 1) : At(s, i) \notin WhiteSpace}
    IN IF keep = {} THEN "" ELSE Slice(s, SetMin(keep), SetMax(keep) + 1)

\* one character of s.lower()
LowerChar(c) ==
    CASE c = "M" -> "m"
      [] c = "D" -> "d"
      [] c = "A" -> "a"
      [] c = "T" -> "t"
      [] c = "E" -> "e"
      [] c = "L" -> "l"
      [] c = "I" -> "i"
      [] c = "O" -> "o"
      [] OTHER -> c

RECURSIVE Lower(_)
\* s.lower()
Lower(s) == IF s = "" THEN "" ELSE LowerChar(Head(s)) \o Lower(Tail(s))

\* the length of the longest run of characters from (or, with inside = FALSE,
\* not from) the set cs that starts at offset i of s
Run(s, i, cs, inside) ==
    LET stops == {j \in i..(Len(s) - 1) : (At(s, j) \in cs) # inside}
    IN IF stops = {} THEN Len(s) - i ELSE SetMin(stops) - i

(* ---------------------------------------------------------------------- *)
(* _read_frontmatter                                                       *)
(* ---------------------------------------------------------------------- *)

\* Optional[str]: <<>> is None, <<s>> is the string s
None == <<>>

Some(s) == <<s>>

\* Python truthiness of an Optional[str]
Truthy(o) == o # None /\ o[1] # ""

\* (?m)$ at offset i
AtLineEnd(t, i) == i = Len(t) \/ At(t, i) = NL

\* (?m)^ at offset i
AtLineStart(t, i) == i = 0 \/ At(t, i - 1) = NL

\* "?\s*$ from offset e: the optional closing quote, then trailing blanks
\* up to an end of line
TailMatches(t, e) ==
    \E q \in {0, 1} :
        /\ q = 1 => At(t, e) = QUOTE
        /\ \E k \in 0..Run(t, e + q, WhiteSpace, TRUE) : AtLineEnd(t, e + q + k)

\* The attempts of  \s*"?([^"\n]+)"?\s*$  from offset j (just after "key:")
\* that succeed: a blanks, q an opening quote, then a value of b characters.
PickAttempts(t, j) ==
    {c \in [a : 0..Run(t, j, WhiteSpace, TRUE), q : {0, 1},
            b : 1..(Len(t) + 1)] :
        /\ c.q = 1 => At(t, j + c.a) = QUOTE
        /\ c.b <= Run(t, j + c.a + c.q, {QUOTE, NL}, FALSE)
        /\ TailMatches(t, j + c.a + c.q + c.b)}

\* group(1) of the attempt the backtracking matcher finds first: the greedy
\* \s* as long as possible, then the quote taken if it can be, then the
\* longest value
PickGroup(t, j) ==
    LET ok == PickAttempts(t, j)
        a  == SetMax({c.a : c \in ok})
        q  == SetMax({c.q : c \in {d \in ok : d.a = a}})
        b  == SetMax({c.b : c \in {d \in ok : d.a = a /\ d.q = q}})
    IN Slice(t, j + a + q, j + a + q + b)

\* the offsets where re.search can match  ^key:...
PickStarts(key, fm_text) ==
    {s \in 0..Len(fm_text) :
        /\ AtLineStart(fm_text, s)
        /\ StartsWith(From(fm_text, s), key \o ":")
        /\ PickAttempts(fm_text, s + Len(key) + 1) # {}}

pick(key, fm_text) ==
    LET starts == PickStarts(key, fm_text)
    IN IF starts = {} THEN None
       ELSE Some(Strip(PickGroup(fm_text, SetMin(starts) + Len(key) + 1)))

\* the closing delimiter: "\n---\n" first, then "\n---" anywhere after it
FrontmatterEnd(text) ==
    LET end == Find(text, NL \o FM_DELIM \o NL, Len(FM_DELIM) + 1)
    IN IF end # -1 THEN end ELSE Find(text, NL \o FM_DELIM, Len(FM_DELIM) + 1)

Frontmatter(fm_text) ==
    [id |-> pick("id", fm_text), type |-> pick("type", fm_text),
     title |-> pick("title", fm_text), status |-> pick("status", fm_text)]

NoFrontmatter == [id |-> None, type |-> None, title |-> None, status |-> None]

\* (frontmatter, error); err = "" is Python's None error
ReadFrontmatter(text) ==
    IF ~StartsWith(text, FM_DELIM \o NL)
    THEN [fm |-> NoFrontmatter, err |-> "missing_frontmatter"]
    ELSE LET end == FrontmatterEnd(text)
         IN IF end = -1
            THEN [fm |-> NoFrontmatter, err |-> "unterminated_frontmatter"]
            ELSE [fm |-> Frontmatter(Slice(text, Len(FM_DELIM) + 1, end)), err |-> ""]

(* ---------------------------------------------------------------------- *)
(* _strip_fenced_code_blocks, _extract_markdown_link_targets               *)
(* ---------------------------------------------------------------------- *)

RECURSIVE SplitLines(_)
\* text.splitlines(), for texts whose only line break is "\n"
SplitLines(text) ==
    IF text = "" THEN <<>>
    ELSE LET k == Find(text, NL, 0)
         IN IF k = -1 THEN <<text>>
            ELSE <<Slice(text, 0, k)>> \o SplitLines(From(text, k + 1))

RECURSIVE Join(_, _)
\* sep.join(lines)
Join(lines, sep) ==
    IF lines = <<>> THEN ""
    ELSE IF Len(lines) = 1 THEN lines[1]
    ELSE lines[1] \o sep \o Join(Tail(lines), sep)

\* line.strip().startswith(FENCE)
IsFenceLine(line) == StartsWith(Strip(line), FENCE)

RECURSIVE KeepUnfencedNeverClosed(_, _)
\* a fence that no later fence line closes
KeepUnfencedNeverClosed(lines, in_fence) ==
    IF lines = <<>> THEN <<>>
    ELSE IF IsFenceLine(Head(lines)) THEN KeepUnfencedNeverClosed(Tail(lines), TRUE)
    ELSE IF ~in_fence THEN <<Head(lines)>> \o KeepUnfencedNeverClosed(Tail(lines), in_fence)
    ELSE KeepUnfencedNeverClosed(Tail(lines), in_fence)

RECURSIVE KeepUnfenced(_, _)
\* the loop of _strip_fenced_code_blocks: the lines appended to out
KeepUnfenced(lines, in_fence) ==
    IF lines = <<>> THEN <<>>
    ELSE IF IsFenceLine(Head(lines)) THEN KeepUnfenced(Tail(lines), ~in_fence)
    ELSE IF ~in_fence THEN <<Head(lines)>> \o KeepUnfenced(Tail(lines), in_fence)
    ELSE KeepUnfenced(Tail(lines), in_fence)

StripFencedCodeBlocks(text) == Join(KeepUnfenced(SplitLines(text), FALSE), NL)

RECURSIVE LinkCaptures(_, _)
\* group(1) of each match re.finditer finds for  !?\[[^\]]*\]\(([^)]+)\)
\* scanning t from offset i: the label ends at the first "]", which "(" must
\* follow, and the target runs to the first ")" and is not empty
LinkCaptures(t, i) ==
    IF i >= Len(t) THEN <<>>
    ELSE LET k == IF At(t, i) = "!" THEN i + 1 ELSE i
             r == IF At(t, k) = "[" THEN Find(t, "]", k + 1) ELSE -1
             c == IF r # -1 /\ At(t, r + 1) = "(" THEN Find(t, ")", r + 2) ELSE -1
         IN IF c # -1 /\ c > r + 2
            THEN <<Slice(t, r + 2, c)>> \o LinkCaptures(t, c + 1)
            ELSE LinkCaptures(t, i + 1)

RECURSIVE StripNonEmpty(_)
\* the captures stripped, the empty ones dropped
StripNonEmpty(caps) ==
    IF caps = <<>> THEN <<>>
    ELSE IF Strip(Head(caps)) = "" THEN StripNonEmpty(Tail(caps))
    ELSE <<Strip(Head(caps))>> \o StripNonEmpty(Tail(caps))

ExtractMarkdownLinkTargets(text) ==
    StripNonEmpty(LinkCaptures(StripFencedCodeBlocks(text), 0))

(* ---------------------------------------------------------------------- *)
(* _normalize_link_target, _is_external_link, _resolve_link_path           *)
(* ---------------------------------------------------------------------- *)

\* t.split(sep, 1)[0].strip() when sep is in t
DropFrom(t, sep) == IF Contains(t, sep) THEN Strip(Slice(t, 0, Find(t, sep, 0))) ELSE t

RECURSIVE Replace(_, _, _)
\* s.replace(old, new)
Replace(s, old, new) ==
    LET k == Find(s, old, 0)
    IN IF k = -1 THEN s
       ELSE Slice(s, 0, k) \o new \o Replace(From(s, k + Len(old)), old, new)

\* the %XX escapes urllib's unquote decodes, for the escapes the modelled
\* targets can hold
PercentCodes ==
    [h \in {"22", "23", "25", "2E", "2e", "2F", "2f", "32", "33", "3A", "3a",
            "3C", "3c", "3E", "3e", "3F", "3f", "6D", "6d"} |->
        CASE h = "22" -> QUOTE
          [] h = "23" -> "#"
          [] h = "25" -> "%"
          [] h \in {"2E", "2e"} -> "."
          [] h \in {"2F", "2f"} -> "/"
          [] h = "32" -> "2"
          [] h = "33" -> "3"
          [] h \in {"3A", "3a"} -> ":"
          [] h \in {"3C", "3c"} -> "<"
          [] h \in {"3E", "3e"} -> ">"
          [] h \in {"3F", "3f"} -> "?"
          [] h \in {"6D", "6d"} -> "m"]

RECURSIVE Unquote(_)
\* urllib.parse.unquote(s)
Unquote(s) ==
    LET k == Find(s, "%", 0)
    IN IF k = -1 THEN s
       ELSE IF Slice(s, k + 1, k + 3) \in DOMAIN PercentCodes
       THEN Slice(s, 0, k) \o PercentCodes[Slice(s, k + 1, k + 3)]
                \o Unquote(From(s, k + 3))
       ELSE Slice(s, 0, k + 1) \o Unquote(From(s, k + 1))

Unwrap(t) ==
    IF StartsWith(t, "<") /\ EndsWith(t, ">") THEN Strip(Slice(t, 1, Len(t) - 1)) ELSE t

NormalizeLinkTarget(raw) ==
    LET cut == DropFrom(DropFrom(Unwrap(Strip(raw)), "#"), "?")
    IN Unquote(Replace(Replace(cut, BACKSLASH \o ")", ")"), BACKSLASH \o "(", "("))

IsExternalLink(target) ==
    LET t == Lower(target)
    IN \/ StartsWith(t, "#")
       \/ Contains(t, "://")
       \/ StartsWith(t, "mailto:")
       \/ StartsWith(t, "tel:")

RECURSIVE Split(_, _)
\* s.split(sep)
Split(s, sep) ==
    LET k == Find(s, sep, 0)
    IN IF k = -1 THEN <<s>> ELSE <<Slice(s, 0, k)>> \o Split(From(s, k + Len(sep)), sep)

RECURSIVE Canonical(_, _)
\* Path.resolve() on a tree without symbolic links: parts appended to the
\* absolute path base, "" and "." dropped, ".." stepping up (never above "/")
Canonical(base, parts) ==
    IF parts = <<>> THEN base
    ELSE IF Head(parts) \in {"", "."} THEN Canonical(base, Tail(parts))
    ELSE IF Head(parts) = ".."
    THEN Canonical(IF base = <<>> THEN base ELSE SubSeq(base, 1, Len(base) - 1),
                   Tail(parts))
    ELSE Canonical(Append(base, Head(parts)), Tail(parts))

\* p.resolve()
Resolve(p) == Canonical(<<>>, p)

\* p.parent
Parent(p) == IF p = <<>> THEN p ELSE SubSeq(p, 1, Len(p) - 1)

ResolveLinkPath(from_file, target) ==
    IF StartsWith(target, "/") THEN Canonical(<<>>, Split(target, "/"))
    ELSE Canonical(Parent(from_file), Split(target, "/"))

(* ---------------------------------------------------------------------- *)
(* main: the state of a run                                                *)
(* ---------------------------------------------------------------------- *)

VARIABLES
    files,          \* the filesystem: file path -> Some(text), None if unreadable
    root_exists,    \* root.exists()
    args,           \* the parsed command line
    stdout_closed,  \* the reader of standard output has gone away
    pc,             \* "start", "scan", "report", "done"
    md_files,       \* the list os.walk collects, in the order it finds them
    todo,           \* what is left of  for p in sorted(md_files)
    errors,         \* list[tuple[Path, str]]
    ids,            \* dict[str, list[Path]]
    inbound,        \* dict[Path, int]
    dup_ids,        \* dict[str, list[Path]]
    exit_status     \* <<>> while running, then <<status>>

vars == <<files, root_exists, args, stdout_closed, pc, md_files, todo, errors,
          ids, inbound, dup_ids, exit_status>>

\* Path(args.root).resolve()
Root == <<"g">>

\* str ordering: the characters in code point order
CodePoints ==
    " !" \o QUOTE \o "#$%&'()*+,-./0123456789:;<=>?@ABCDEFGHIJKLMNOPQRSTUVWXYZ["
        \o BACKSLASH \o "]^_" \o BACKTICK \o "abcdefghijklmnopqrstuvwxyz{|}"

\* ord(c) for each of these characters
OrdTable == [c \in {At(CodePoints, i) : i \in 0..(Len(CodePoints) - 1)} |->
                32 + Find(CodePoints, c, 0)]

Ord(c) == OrdTable[c]

RECURSIVE StrLess(_, _)
\* a < b on str
StrLess(a, b) ==
    IF b = "" THEN FALSE
    ELSE IF a = "" THEN TRUE
    ELSE IF Head(a) = Head(b) THEN StrLess(Tail(a), Tail(b))
    ELSE Ord(Head(a)) < Ord(Head(b))

RECURSIVE PathLess(_, _)
\* p < q on Path: the parts compared in order
PathLess(p, q) ==
    IF q = <<>> THEN FALSE
    ELSE IF p = <<>> THEN TRUE
    ELSE IF Head(p) = Head(q) THEN PathLess(Tail(p), Tail(q))
    ELSE StrLess(Head(p), Head(q))

RECURSIVE Insert(_, _)
Insert(p, sorted) ==
    IF sorted = <<>> THEN <<p>>
    ELSE IF PathLess(p, Head(sorted)) THEN <<p>> \o sorted
    ELSE <<Head(sorted)>> \o Insert(p, Tail(sorted))

RECURSIVE Sorted(_)
\* sorted(paths)
Sorted(paths) == IF paths = <<>> THEN <<>> ELSE Insert(Head(paths), Sorted(Tail(paths)))

Range(f) == {f[i] : i \in DOMAIN f}

\* p lies below the directory dir
Under(dir, p) == Len(p) > Len(dir) /\ SubSeq(p, 1, Len(dir)) = dir

\* what os.walk(root) finds: the files below root named *.md, no glob excluded
Discovered(fs) == {p \in DOMAIN fs : Under(Root, p) /\ EndsWith(Lower(p[Len(p)]), ".md")}

\* Path.exists(): a file, or a directory on the way to one
Exists(p) ==
    \/ p \in DOMAIN files
    \/ \E f \in DOMAIN files : Len(p) < Len(f) /\ SubSeq(f, 1, Len(p)) = p
    \/ p = Root /\ root_exists

\* kv.get(k)
KvGet(fm, k) ==
    CASE k = "id" -> fm.id
      [] k = "type" -> fm.type
      [] k = "title" -> fm.title
      [] k = "status" -> fm.status
      [] OTHER -> None

\* a list of findings kept free of repetitions
RecordErrorOnce(errs, p, code) ==
    IF <<p, code>> \in Range(errs) THEN errs ELSE Append(errs, <<p, code>>)

\* record_error(p, code) on the list errs
RecordError(errs, p, code) == Append(errs, <<p, code>>)

RECURSIVE MissingKeys(_, _, _, _)
\* for k in required: if not kv.get(k): record_error(p, f"missing_{k}")
MissingKeys(errs, p, required, fm) ==
    IF required = <<>> THEN errs
    ELSE MissingKeys(IF Truthy(KvGet(fm, Head(required))) THEN errs
                     ELSE RecordError(errs, p, "missing_" \o Head(required)),
                     p, Tail(required), fm)

\* an index that keeps only the last document to declare an id
AddIdLast(d, id, p) == [k \in DOMAIN d \cup {id} |-> IF k = id THEN <<p>> ELSE d[k]]

\* ids.setdefault(id, []).append(p)
AddId(d, id, p) ==
    [k \in DOMAIN d \cup {id} |->
        IF k \in DOMAIN d
        THEN (IF k = id THEN Append(d[k], p) ELSE d[k])
        ELSE <<p>>]

\* the link is past the three filters of the loop: not external as written,
\* not empty once normalized, and named *.md
IsDocLink(raw_target) ==
    /\ ~IsExternalLink(raw_target)
    /\ NormalizeLinkTarget(raw_target) # ""
    /\ EndsWith(Lower(NormalizeLinkTarget(raw_target)), ".md")

\* an inbound test that forgets the self-reference
CountsInboundSelf(inb, p, resolved_norm) == resolved_norm \in DOMAIN inb

\* resolved_norm in inbound and resolved_norm != p.resolve()
CountsInbound(inb, p, resolved_norm) ==
    resolved_norm \in DOMAIN inb /\ resolved_norm # Resolve(p)

\* the body of  for raw_target in ...:  on the accumulators acc
LinkStep(p, raw_target, acc) ==
    IF ~IsDocLink(raw_target) THEN acc
    ELSE LET target   == NormalizeLinkTarget(raw_target)
             resolved == ResolveLinkPath(p, target)
         IN [errors |->
                 IF args.check_links /\ ~Exists(resolved)
                 THEN RecordError(acc.errors, p, "broken_link:" \o target)
                 ELSE acc.errors,
             inbound |->
                 IF args.check_orphans /\ CountsInbound(acc.inbound, p, Resolve(resolved))
                 THEN [acc.inbound EXCEPT ![Resolve(resolved)] = @ + 1]
                 ELSE acc.inbound]

RECURSIVE ScanLinks(_, _, _)
ScanLinks(p, targets, acc) ==
    IF targets = <<>> THEN acc
    ELSE ScanLinks(p, Tail(targets), LinkStep(p, Head(targets), acc))

\* one pass of  for p in sorted(md_files):  on a file that reads as text
ScanFile(p, text) ==
    LET r == ReadFrontmatter(text)
    IN IF r.err # ""
       THEN [errors |-> RecordError(errors, p, r.err), ids |-> ids, inbound |-> inbound]
       ELSE LET acc == [errors |-> MissingKeys(errors, p, args.required, r.fm),
                        inbound |-> inbound]
                out == IF args.check_links \/ args.check_orphans
                       THEN ScanLinks(p, ExtractMarkdownLinkTargets(text), acc)
                       ELSE acc
            IN [errors |-> out.errors,
                ids |-> IF Truthy(r.fm.id) THEN AddId(ids, r.fm.id[1], p) ELSE ids,
                inbound |-> out.inbound]

\* the detail of a read_error: the text of the exception
ReadErrorDetail == "Permission denied"

\* (root / str(args.root_index)).resolve()
RootIndex == Canonical(Root, Split(args.root_index, "/"))

\* pp != root_index and inbound.get(pp, 0) == 0
IsOrphan(pp) == pp # RootIndex /\ (pp \in DOMAIN inbound => inbound[pp] = 0)

RECURSIVE Orphans(_, _)
\* the orphan pass over  sorted(md_files)
Orphans(errs, paths) ==
    IF paths = <<>> THEN errs
    ELSE Orphans(IF IsOrphan(Resolve(Head(paths)))
                 THEN RecordError(errs, Head(paths), "orphan_node")
                 ELSE errs,
                 Tail(paths))

\* {k: v for k, v in ids.items() if len(v) > 1}
DupIds(d) == [k \in {j \in DOMAIN d : Len(d[j]) > 1} |-> d[k]]

EmptyDict == [k \in {} |-> <<>>]

(* ---------------------------------------------------------------------- *)
(* the inputs of a run                                                     *)
(* ---------------------------------------------------------------------- *)

\* the orderings of the set S as lists
Orderings(S) ==
    {f \in [1..Cardinality(S) -> S] : \A i, j \in 1..Cardinality(S) : f[i] = f[j] => i = j}

DocA == <<"g", "a.md">>
DocB == <<"g", "b.md">>
Outside == <<"o.md">>

\* The tree: two documents below the root and a markdown file outside it.
Tree(a, b) ==
    [p \in {DocA, DocB, Outside} |->
        IF p = DocA THEN a ELSE IF p = DocB THEN b ELSE Some("")]

NoTree == [p \in {Outside} |-> Some("")]

\* at most this many body lines in the whole tree
MaxLines == 2

Frontmatters == {"", "---\nid: x\n---\n", "---\nid: y\n---\n"}

\* links to a.md, to b.md, to a missing file and to the file outside the root
LinkLines == {"[a](a.md)", "![b](./b.md)", "[n](n.md)", "[o](../o.md)"}

Bodies(n) == {Join(ls, NL) : ls \in [1..n -> LinkLines]}

Texts(n) == {Some(f \o b) : f \in Frontmatters, b \in Bodies(n)}
              \cup (IF n = 0 THEN {None} ELSE {})

Trees ==
    UNION {{Tree(a, b) : a \in Texts(n[1]), b \in Texts(n[2])} :
              n \in {m \in (0..MaxLines) \X (0..MaxLines) : m[1] + m[2] <= MaxLines}}

RequiredLists == {<<"id">>, <<"id", "type", "type">>}

ArgSets ==
    [required : RequiredLists, check_links : BOOLEAN, check_orphans : BOOLEAN,
     root_index : {"a.md"}]

InitRun(fs) ==
    /\ root_exists \in BOOLEAN
    /\ files \in (IF root_exists THEN fs ELSE {NoTree})
    /\ stdout_closed = FALSE
    /\ pc = "start"
    /\ md_files = <<>>
    /\ todo = <<>>
    /\ errors = <<>>
    /\ ids = EmptyDict
    /\ inbound = EmptyDict
    /\ dup_ids = EmptyDict
    /\ exit_status = <<>>

Init == args \in ArgSets /\ InitRun(Trees)

(* ---------------------------------------------------------------------- *)
(* main: the steps of a run                                                *)
(* ---------------------------------------------------------------------- *)

\* if not root.exists(): return 2
RootMissing ==
    /\ pc = "start"
    /\ ~root_exists
    /\ pc' = "done"
    /\ exit_status' = <<2>>
    /\ UNCHANGED <<files, root_exists, args, stdout_closed, md_files, todo, errors,
                   ids, inbound, dup_ids>>

\* the walk, in whatever order the directory lists its files, and the tables
Walk ==
    /\ pc = "start"
    /\ root_exists
    /\ \E found \in Orderings(Discovered(files)) :
           /\ md_files' = found
           /\ todo' = Sorted(found)
           /\ inbound' = [p \in {Resolve(q) : q \in Range(found)} |-> 0]
    /\ pc' = "scan"
    /\ UNCHANGED <<files, root_exists, args, stdout_closed, errors, ids, dup_ids,
                   exit_status>>

\* one pass of  for p in sorted(md_files)
ProcessFile ==
    /\ pc = "scan"
    /\ todo # <<>>
    /\ \E out \in {IF files[Head(todo)] = None
                    THEN [errors |-> RecordError(errors, Head(todo),
                                                 "read_error: " \o ReadErrorDetail),
                          ids |-> ids, inbound |-> inbound]
                    ELSE ScanFile(Head(todo), files[Head(todo)][1])} :
           /\ errors' = out.errors
           /\ ids' = out.ids
           /\ inbound' = out.inbound
    /\ todo' = Tail(todo)
    /\ UNCHANGED <<files, root_exists, args, stdout_closed, pc, md_files, dup_ids,
                   exit_status>>

\* after the loop: the duplicate ids and the orphan pass
Finish ==
    /\ pc = "scan"
    /\ todo = <<>>
    /\ dup_ids' = DupIds(ids)
    /\ errors' = IF args.check_orphans THEN Orphans(errors, Sorted(md_files)) ELSE errors
    /\ pc' = "report"
    /\ UNCHANGED <<files, root_exists, args, stdout_closed, md_files, todo, ids,
                   inbound, exit_status>>

\* a status that looks at the findings only
ExitStatusErrorsOnly(closed) == IF closed \/ errors # <<>> THEN 1 ELSE 0

\* What main returns once the report is printed. Some line is always
\* printed, and safe_print ends the run with status 1 on a broken pipe.
ExitStatus(closed) ==
    IF closed THEN 1
    ELSE IF errors # <<>> \/ DOMAIN dup_ids # {} THEN 1
    ELSE 0

Report ==
    /\ pc = "report"
    /\ stdout_closed' \in BOOLEAN
    /\ exit_status' = <<ExitStatus(stdout_closed')>>
    /\ pc' = "done"
    /\ UNCHANGED <<files, root_exists, args, md_files, todo, errors, ids, inbound,
                   dup_ids>>

Next == RootMissing \/ Walk \/ ProcessFile \/ Finish \/ Report

Spec == Init /\ [][Next]_vars

(* ---------------------------------------------------------------------- *)
(* runs over one document whose metadata block, fences or link target      *)
(* range over all short texts                                              *)
(* ---------------------------------------------------------------------- *)

RECURSIVE Strings(_, _)
\* the texts made of at most n of the given pieces
Strings(pieces, n) ==
    IF n = 0 THEN {""}
    ELSE LET shorter == Strings(pieces, n - 1)
         IN shorter \cup {t \o c : t \in shorter, c \in pieces}

PlainArgs ==
    [required |-> <<"id">>, check_links |-> TRUE, check_orphans |-> TRUE,
     root_index |-> "a.md"]

\* a tree whose only document under the root is a.md
Single(a) == [p \in {DocA, Outside} |-> IF p = DocA THEN a ELSE Some("")]

\* at most this many characters after the opening delimiter line
MaxDelimLen == 6

\* at most this many pieces in a metadata block
MaxBlockLen == 4

OpenedTexts == {Some(FM_DELIM \o NL \o t) : t \in Strings({"-", NL, "x"}, MaxDelimLen)}

BlockTexts ==
    {Some(FM_DELIM \o NL \o t \o NL \o FM_DELIM \o NL) :
        t \in Strings({"id:", " ", NL, "v", QUOTE}, MaxBlockLen)}

InitFrontmatter ==
    /\ args = PlainArgs
    /\ InitRun({Single(a) : a \in OpenedTexts \cup BlockTexts})

SpecFrontmatter == InitFrontmatter /\ [][Next]_vars

GoodMeta == "---\nid: x\n---\n"

OtherDoc == Some("---\nid: y\n---\n")

\* at most this many body lines in a.md
MaxFenceLines == 3

FenceLines == {FENCE, "  " \o FENCE \o "py", "[n](n.md)", "[b](b.md)"}

FencedTexts ==
    UNION {{Some(GoodMeta \o Join(ls, NL)) : ls \in [1..n -> FenceLines]} :
              n \in 0..MaxFenceLines}

InitFence ==
    /\ args \in [required : {<<"id">>}, check_links : BOOLEAN, check_orphans : BOOLEAN,
                 root_index : {"a.md"}]
    /\ InitRun({Tree(a, OtherDoc) : a \in FencedTexts})

SpecFence == InitFence /\ [][Next]_vars

\* at most this many pieces in a link target
MaxTargetLen == 4

TargetTexts ==
    {Some(GoodMeta \o "[l](" \o t \o ")") :
        t \in Strings({"<", ">", "tel:", "%23", "#", "n.md", "b.md", "x/../"},
                      MaxTargetLen)}

InitTargets ==
    /\ args = PlainArgs
    /\ InitRun({Tree(a, OtherDoc) : a \in TargetTexts})

SpecTargets == InitTargets /\ [][Next]_vars

(* ---------------------------------------------------------------------- *)
(* what the properties speak of                                            *)
(* ---------------------------------------------------------------------- *)

Docs == Discovered(files)

Readable(D) == files[D] # None

Text(D) == files[D][1]

\* D was read and its metadata block parsed
Parsed(D) == Readable(D) /\ ReadFrontmatter(Text(D)).err = ""

\* every document has been processed and the orphan pass is over; what is
\* left is to print the report, which changes none of the tables
Scanned == root_exists /\ pc = "report"

Recorded(D, code) == <<D, code>> \in Range(errors)

\* how many times the finding is on the list
Count(D, code) == Cardinality({i \in DOMAIN errors : errors[i] = <<D, code>>})

\* the link targets of D outside fenced code, as written
Links(D) == ExtractMarkdownLinkTargets(Text(D))

\* a normalized target that is internal and names a markdown document
InternalMd(t) == ~IsExternalLink(t) /\ EndsWith(Lower(t), ".md")

\* where a link of D with the normalized target t leads
Leads(D, t) == Resolve(ResolveLinkPath(D, t))

(* ---------------------------------------------------------------------- *)
(* C1                                                                      *)
(* ---------------------------------------------------------------------- *)

\* C1: with link checking enabled, for every discovered document D, whatever
\* its other findings, and every link of D outside fenced code whose
\* normalized target is internal and ends in .md, broken_link:<target> is
\* recorded against D exactly when the resolved path does not exist.
C1_BrokenLinkIffMissing ==
    (Scanned /\ args.check_links) =>
        \A D \in Docs : Readable(D) =>
            \A raw \in Range(Links(D)) :
                LET t == NormalizeLinkTarget(raw)
                IN InternalMd(t) =>
                       (Recorded(D, "broken_link:" \o t) <=> ~Exists(ResolveLinkPath(D, t)))

(* ---------------------------------------------------------------------- *)
(* C2                                                                      *)
(* ---------------------------------------------------------------------- *)

\* A has, outside fenced code, an internal .md link that resolves to B
LinksTo(A, B) ==
    \E raw \in Range(Links(A)) :
        LET t == NormalizeLinkTarget(raw)
        IN InternalMd(t) /\ Leads(A, t) = Resolve(B)

\* C2: with orphan checking enabled, for all distinct discovered documents A
\* and B, whatever findings A has: if A links to B then, at the end of the
\* run, B's inbound count is at least 1 and B is not reported orphan_node.
C2_LinkedIsNotOrphan ==
    (Scanned /\ args.check_orphans) =>
        \A A \in Docs, B \in Docs :
            (A # B /\ Readable(A) /\ LinksTo(A, B)) =>
                (inbound[Resolve(B)] >= 1 /\ ~Recorded(B, "orphan_node"))

(* ---------------------------------------------------------------------- *)
(* C3                                                                      *)
(* ---------------------------------------------------------------------- *)

\* the links of Q, among those the loop follows, that lead to D
LinksFromTo(Q, D) ==
    LET links == Links(Q)
    IN Cardinality({i \in DOMAIN links :
           IsDocLink(links[i]) /\ Leads(Q, NormalizeLinkTarget(links[i])) = Resolve(D)})

RECURSIVE LinksInto(_, _)
\* the links that lead to D from the other documents of the list
LinksInto(docs, D) ==
    IF docs = <<>> THEN 0
    ELSE (IF Head(docs) # D /\ Parsed(Head(docs)) THEN LinksFromTo(Head(docs), D) ELSE 0)
         + LinksInto(Tail(docs), D)

\* C3: with orphan checking enabled, after all documents are processed,
\* orphan_node is recorded for exactly the discovered documents that are not
\* the root-index document and whose inbound count is zero; the inbound count
\* of a document counts only links from other discovered documents (never a
\* link of the document to itself, nothing for a path that was not
\* discovered), and the root-index document is never reported.
C3_OrphansAreZeroInbound ==
    (Scanned /\ args.check_orphans) =>
        /\ DOMAIN inbound = {Resolve(D) : D \in Docs}
        /\ \A i \in DOMAIN errors : errors[i][2] = "orphan_node" => errors[i][1] \in Docs
        /\ \A D \in Docs :
            /\ inbound[Resolve(D)] = LinksInto(md_files, D)
            /\ Count(D, "orphan_node") =
                   (IF Resolve(D) # RootIndex /\ inbound[Resolve(D)] = 0 THEN 1 ELSE 0)

\* b.md links only to itself and is reported; a.md, the root index, links
\* only outside the root, has no inbound link and is not reported
C3_Witness ==
    /\ pc = "report"
    /\ root_exists
    /\ args.check_orphans
    /\ files[DocA] = Some(GoodMeta \o "[o](../o.md)")
    /\ files[DocB] = Some("---\nid: y\n---\n![b](./b.md)")
    /\ inbound[DocA] = 0
    /\ inbound[DocB] = 0
    /\ Recorded(DocB, "orphan_node")
    /\ ~Recorded(DocA, "orphan_node")

(* ---------------------------------------------------------------------- *)
(* C4                                                                      *)
(* ---------------------------------------------------------------------- *)

\* the id the discovered document D declares: None where D cannot be read,
\* has no metadata block, or the block holds no id
DeclaredId(D) ==
    IF ~Readable(D) THEN None
    ELSE LET r == ReadFrontmatter(Text(D))
         IN IF r.err = "" /\ Truthy(r.fm.id) THEN r.fm.id ELSE None

\* each discovered document with the id it declares
Declarations == {<<D, DeclaredId(D)>> : D \in Docs}

DuplicateIdsExact(decl) ==
    /\ DOMAIN dup_ids =
           {d[2][1] : d \in {e \in decl :
               e[2] # None /\ \E f \in decl : f[1] # e[1] /\ f[2] = e[2]}}
    /\ \A k \in DOMAIN dup_ids : \A D \in Docs \cup Range(dup_ids[k]) :
           Cardinality({i \in DOMAIN dup_ids[k] : dup_ids[k][i] = D})
               = (IF <<D, Some(k)>> \in decl THEN 1 ELSE 0)

\* C4: after all documents are processed the duplicate ids reported are
\* exactly the ids extracted from the metadata of more than one discovered
\* document, and each lists every document that declared it exactly once,
\* in whatever order the files were discovered.
C4_DuplicateIdsExact == Scanned => DuplicateIdsExact(Declarations)

\* both documents declare x, and the walk found b.md before a.md
C4_Witness ==
    /\ pc = "report"
    /\ root_exists
    /\ md_files = <<DocB, DocA>>
    /\ DOMAIN dup_ids = {"x"}
    /\ dup_ids["x"] = <<DocA, DocB>>

(* ---------------------------------------------------------------------- *)
(* C5                                                                      *)
(* ---------------------------------------------------------------------- *)

\* nothing was discovered, recorded or indexed
NothingProcessed == md_files = <<>> /\ errors = <<>> /\ DOMAIN ids = {}

Clean == errors = <<>> /\ DOMAIN dup_ids = {}

\* C5: the exit status is 2 exactly when the scan root does not exist (and
\* then no document is processed); otherwise it is 0 exactly when no finding
\* was recorded and no id is duplicated, and 1 exactly when a finding was
\* recorded or an id is duplicated.
C5_ExitStatus ==
    pc = "done" =>
        /\ exit_status = <<2>> <=> ~root_exists
        /\ ~root_exists => NothingProcessed
        /\ root_exists =>
            /\ exit_status = <<0>> <=> Clean
            /\ exit_status = <<1>> <=> ~Clean

\* C5, amended: as C5 while the reader of standard output stays open; a
\* print that fails on a closed pipe ends the run with status 1, whatever
\* was found.
C5_ExitStatusWhileStdoutOpen ==
    pc = "done" =>
        /\ exit_status = <<2>> <=> ~root_exists
        /\ ~root_exists => NothingProcessed
        /\ (root_exists /\ ~stdout_closed) =>
            /\ exit_status = <<0>> <=> Clean
            /\ exit_status = <<1>> <=> ~Clean
        /\ (root_exists /\ stdout_closed) => exit_status = <<1>>

\* a run with no finding and a duplicated id that ends with status 1
C5_Witness ==
    /\ pc = "done"
    /\ root_exists
    /\ ~stdout_closed
    /\ errors = <<>>
    /\ DOMAIN dup_ids = {"x"}
    /\ exit_status = <<1>>

(* ---------------------------------------------------------------------- *)
(* C10                                                                     *)
(* ---------------------------------------------------------------------- *)

FollowedLinksTo(links, code) ==
    Cardinality({i \in DOMAIN links :
        IsDocLink(links[i]) /\ "broken_link:" \o NormalizeLinkTarget(links[i]) = code})

\* how many times the required list names the key of the code missing_<key>
TimesRequired(code) ==
    Cardinality({i \in DOMAIN args.required : "missing_" \o args.required[i] = code})

OncePerDetection(D, parsed, links) ==
    \A i \in DOMAIN errors : errors[i][1] = D =>
        Count(D, errors[i][2]) =
            (IF parsed /\ StartsWith(errors[i][2], "missing_")
             THEN TimesRequired(errors[i][2])
             ELSE IF StartsWith(errors[i][2], "broken_link:")
             THEN FollowedLinksTo(links, errors[i][2])
             ELSE 1)

ClosingLines(lines) == {c \in 2..Len(lines) : lines[c] = FM_DELIM}

\* the text opens with the delimiter line and a later line closes the block
WellFormed(text) ==
    StartsWith(text, FM_DELIM \o NL) /\ ClosingLines(SplitLines(text)) # {}

\* the lines between the opening line and the first closing line
BlockLines(text) ==
    LET lines == SplitLines(text)
    IN SubSeq(lines, 2, SetMin(ClosingLines(lines)) - 1)

\* some line of the block starts with key: and carries a value itself
HasValueLine(key, lines) == \E i \in DOMAIN lines : Truthy(pick(key, lines[i]))

\* C6: for a document with a well-formed bounded metadata block and a
\* required key k, missing_k is recorded exactly when no line of the block
\* starts with k: and carries a non-empty value on that same line; a value
\* is never taken from another line.
C6_MissingIffNoValueLine ==
    (Scanned /\ Readable(DocA) /\ WellFormed(Text(DocA)) /\ Parsed(DocA)) =>
        \A i \in DOMAIN args.required :
            Recorded(DocA, "missing_" \o args.required[i])
                <=> ~HasValueLine(args.required[i], BlockLines(Text(DocA)))

\* C7: for a document whose text begins with the delimiter line, parsing
\* yields unterminated_frontmatter exactly when no later line consists
\* solely of the delimiter, whether that line ends the file or not.
C7_UnterminatedIffNoClosingLine ==
    (Scanned /\ Readable(DocA) /\ StartsWith(Text(DocA), FM_DELIM \o NL)) =>
        (Recorded(DocA, "unterminated_frontmatter") <=> ~WellFormed(Text(DocA)))

(* ---------------------------------------------------------------------- *)
(* C8                                                                      *)
(* ---------------------------------------------------------------------- *)

\* the lines that are no fence line and have an even number of fence lines
\* before them
OutsideFences(lines) ==
    {i \in DOMAIN lines :
        /\ ~IsFenceLine(lines[i])
        /\ Cardinality({j \in 1..(i - 1) : IsFenceLine(lines[j])}) % 2 = 0}

\* the lines of the set I, in the order of the text
LinesAt(lines, I) ==
    [k \in 1..Cardinality(I) |->
        lines[CHOOSE i \in I : Cardinality({j \in I : j <= i}) = k]]

\* how many of the lines outside fences are the line written
WrittenOutside(lines, written) ==
    Cardinality({i \in OutsideFences(lines) : lines[i] = written})

FenceToggle(lines) ==
    /\ KeepUnfenced(lines, FALSE) = LinesAt(lines, OutsideFences(lines))
    /\ Count(DocA, "broken_link:n.md") =
           (IF args.check_links THEN WrittenOutside(lines, "[n](n.md)") ELSE 0)
    /\ Count(DocA, "broken_link:b.md") = 0
    /\ inbound[DocB] =
           (IF args.check_orphans THEN WrittenOutside(lines, "[b](b.md)") ELSE 0)

\* C8: fence stripping keeps a line exactly when it is no fence line and an
\* even number of fence lines precede it; so the links on lines inside a
\* fenced block, also one that is never closed, add no broken_link finding
\* and nothing to an inbound count: both come from the lines outside only.
C8_FencedLinksIgnored == Scanned => FenceToggle(SplitLines(Text(DocA)))

\* both links of a.md are below a fence that is never closed
C8_Witness ==
    /\ Scanned
    /\ args.check_links
    /\ args.check_orphans
    /\ files[DocA] = Some(GoodMeta \o FENCE \o "\n[n](n.md)\n[b](b.md)")
    /\ ~Recorded(DocA, "broken_link:n.md")
    /\ inbound[DocB] = 0
    /\ Recorded(DocB, "orphan_node")

(* ---------------------------------------------------------------------- *)
(* C9                                                                      *)
(* ---------------------------------------------------------------------- *)

\* C9: a captured target whose normalized form begins with #, contains ://
\* or begins with mailto: or tel: is external and excluded from further
\* processing: it adds no broken_link finding and no inbound count. (The
\* documents here hold at most one link.)
C9_ExternalExcluded ==
    (Scanned /\ Readable(DocA)) =>
        \A raw \in Range(Links(DocA)) :
            IsExternalLink(NormalizeLinkTarget(raw)) =>
                /\ \A i \in DOMAIN errors : ~StartsWith(errors[i][2], "broken_link:")
                /\ \A p \in DOMAIN inbound : inbound[p] = 0

====
